---- MODULE Spec2Model ----
(* A model of plex/lexer.py: the Lexer object (buffer, cursor, rule     *)
(* registry, error hook) and its operations setup, on_match, on_error   *)
(* and next_token (__next__ -> _token -> _error / get_pos).             *)
(* Offsets are 0-based as in Python; the character at offset i of a     *)
(* buffer b is b[i + 1].                                                *)
EXTENDS Integers, Sequences, FiniteSets, TLC

\* ---------------------------------------------------------------- bounds
MaxLen == 2

\* ------------------------------------------------------------ characters
NL == "\n"
Alphabet == {"a", "#", " ", NL}
\* the characters of the alphabet that the class \s matches
WsChars == {" ", NL}

Buffers == UNION {[1..n -> Alphabet] : n \in 0..MaxLen}

\* ------------------------------------------------- the regex capability
\* A compiled pattern is a character class with a quantifier:
\*   one  = [cls]     plus = [cls]+     star = [cls]*
\* pattern.match(buffer, pos) is anchored at pos and greedy; it yields the
\* end offset of the match, or NoMatch.
NoMatch == -1

RECURSIVE RunEnd(_, _, _)
RunEnd(buf, p, cls) ==
    IF p < Len(buf) /\ buf[p + 1] \in cls THEN RunEnd(buf, p + 1, cls) ELSE p

Match(pat, buf, p) ==
    LET e == RunEnd(buf, p, pat.cls)
    IN  CASE pat.quant = "one"  -> IF e > p THEN p + 1 ELSE NoMatch
          [] pat.quant = "plus" -> IF e > p THEN e ELSE NoMatch
          [] OTHER              -> e

\* buffer[p:q]
Slice(buf, p, q) == SubSeq(buf, p + 1, q)

\* WHITESPACE = \s+
WHITESPACE == [cls |-> WsChars, quant |-> "plus"]

\* buffer.count('\n', 0, p)
RECURSIVE CountNL(_, _)
CountNL(buf, p) ==
    IF p <= 0 THEN 0
    ELSE CountNL(buf, p - 1) + (IF p <= Len(buf) /\ buf[p] = NL THEN 1 ELSE 0)

\* '\n' in buffer[p:q]
HasNL(buf, p, q) == \E i \in (p + 1)..q : buf[i] = NL

\* ------------------------------------------------------ rules and tokens
\* the patterns handed to on_match:  [a\n]  and  a*
PatChar  == [cls |-> {"a", NL}, quant |-> "one"]
PatAStar == [cls |-> {"a"}, quant |-> "star"]
Patterns == {PatChar, PatAStar}

\* The decorated functions, <<func.__name__, what func does>>:
\*   identity : return token
\*   rewrite  : lexer.pos = 0; token.value = 'X'; token.type = 'X';
\*              return token
Funcs == {<<"A", "identity">>, <<"B", "identity">>, <<"B", "rewrite">>}

\* the registrations made, <<func, pattern>>: @lexer.on_match(pattern) on
\* def func
Registrations ==
    {<<<<"A", "identity">>, PatChar>>, <<<<"A", "identity">>, PatAStar>>,
     <<<<"B", "identity">>, PatAStar>>, <<<<"B", "rewrite">>, PatChar>>}

Token(value, type, tpos) == [value |-> value, type |-> type, pos |-> tpos]
NoToken == Token(<<>>, "", <<-1, -1>>)
NoPos == <<-1, -1>>

\* what the action returns for the token it is handed
ActionResult(act, tok) ==
    IF act = "rewrite" THEN Token(<<"X">>, "X", tok.pos) ELSE tok

\* the value the action leaves in lexer.pos, given the value p it finds there
ActionPos(act, p) == IF act = "rewrite" THEN 0 ELSE p

PatternAction(name, pattern, action) ==
    [name |-> name, pattern |-> pattern, action |-> action]

\* ----------------------------------------------------------------- state
VARIABLES
    buffer,       \* Lexer.buffer
    pos,          \* Lexer.pos
    col_no,       \* Lexer.col_no
    line_start,   \* Lexer._line_start
    error_func,   \* Lexer._error_func: "None" or "hook"
    ignore_ws,    \* Lexer._ignore_ws
    rules,        \* Lexer._rules, an insertion-ordered dict, as a sequence
    last,         \* the last call made on the lexer and what it gave back
    consumed,     \* text consumed since setup (skipped runs, token values),
                  \* kept while only identity actions have run
    pure,         \* only identity actions have run since setup
    ended         \* StopIteration since setup: "no", "once", "again"

vars == <<buffer, pos, col_no, line_start, error_func, ignore_ws, rules,
          last, consumed, pure, ended>>

\* op: the method called; kind: how it ended; start: the cursor after the
\* whitespace skip (for on_match: the position of the rule in _rules); handed: the token given to the action; ret: the value
\* returned; errpos: the (line, column) of the LexerError message (for
\* get_pos: the pair returned); hooks:
\* the number of times the error hook was invoked
Call(op, kind, start, handed, ret, errpos, hooks) ==
    [op |-> op, kind |-> kind, start |-> start, handed |-> handed,
     ret |-> ret, errpos |-> errpos, hooks |-> hooks]

Plain(op) == Call(op, "ok", -1, NoToken, NoToken, NoPos, 0)

\* Lexer.__init__
Init ==
    /\ buffer = <<>>
    /\ pos = 0
    /\ col_no = 0
    /\ line_start = 0
    /\ error_func = "None"
    /\ ignore_ws = TRUE
    /\ rules = <<>>
    /\ last = Plain("init")
    /\ consumed = <<>>
    /\ pure = TRUE
    /\ ended = "no"

SetupKeepsPos(b, ws) ==
    /\ buffer' = b
    /\ pos' = pos
    /\ col_no' = 0
    /\ ignore_ws' = ws
    /\ last' = Plain("setup")
    /\ consumed' = <<>>
    /\ pure' = TRUE
    /\ ended' = "no"
    /\ UNCHANGED <<line_start, error_func, rules>>

SetupClearsRules(b, ws) ==
    /\ buffer' = b
    /\ pos' = 0
    /\ col_no' = 0
    /\ ignore_ws' = ws
    /\ last' = Plain("setup")
    /\ consumed' = <<>>
    /\ pure' = TRUE
    /\ ended' = "no"
    /\ rules' = <<>>
    /\ UNCHANGED <<line_start, error_func>>

\* Lexer.setup(buffer, ignore_ws)
Setup(b, ws) ==
    /\ buffer' = b
    /\ pos' = 0
    /\ col_no' = 0
    /\ ignore_ws' = ws
    /\ last' = Plain("setup")
    /\ consumed' = <<>>
    /\ pure' = TRUE
    /\ ended' = "no"
    /\ UNCHANGED <<line_start, error_func, rules>>

\* index of name in the registry, 0 if absent
IndexOf(rs, name) ==
    IF \E i \in 1..Len(rs) : rs[i].name = name
    THEN CHOOSE i \in 1..Len(rs) : rs[i].name = name
    ELSE 0

RegisterMovesToEnd(rs, name, pattern, action) ==
    Append(SelectSeq(rs, LAMBDA r : r.name # name),
           PatternAction(name, pattern, action))

\* self._rules[func.__name__] = PatternAction(compiled_pattern, func)
Register(rs, name, pattern, action) ==
    LET i == IndexOf(rs, name)
        r == PatternAction(name, pattern, action)
    IN  IF i = 0 THEN Append(rs, r) ELSE [rs EXCEPT ![i] = r]

\* Lexer.on_match(pattern)(func); the call is recorded with whether the
\* name was already a key of _rules and the position the rule now has
OnMatch(name, pattern, action) ==
    /\ rules' = Register(rules, name, pattern, action)
    /\ last' = Call("on_match",
                    IF IndexOf(rules, name) = 0 THEN "added" ELSE "replaced",
                    IndexOf(rules', name), NoToken, NoToken, NoPos, 0)
    /\ UNCHANGED <<buffer, pos, col_no, line_start, error_func, ignore_ws,
                   consumed, pure, ended>>

\* Lexer.on_error(func)
OnError ==
    /\ error_func' = "hook"
    /\ last' = Plain("on_error")
    /\ UNCHANGED <<buffer, pos, col_no, line_start, ignore_ws, rules,
                   consumed, pure, ended>>

\* Lexer.get_pos with the cursor at p and the line start at ls
GetPos(buf, p, ls) == <<CountNL(buf, p), p - ls>>

GetPosCallCachesColumn ==
    /\ last' = Call("get_pos", "ok", -1, NoToken, NoToken,
                    GetPos(buffer, pos, line_start), 0)
    /\ col_no' = pos - line_start
    /\ UNCHANGED <<buffer, pos, line_start, error_func, ignore_ws, rules,
                   consumed, pure, ended>>

\* a call of Lexer.get_pos by the user; the pair returned is recorded in
\* last.errpos
GetPosCall ==
    /\ last' = Call("get_pos", "ok", -1, NoToken, NoToken,
                    GetPos(buffer, pos, line_start), 0)
    /\ UNCHANGED <<buffer, pos, col_no, line_start, error_func, ignore_ws,
                   rules, consumed, pure, ended>>

SkipEndIgnoresFlag(buf, p, ws) ==
    LET m == Match(WHITESPACE, buf, p)
    IN  IF m # NoMatch THEN m ELSE p

\* the whitespace skip of _token: the end of the run at p, or p
SkipEnd(buf, p, ws) ==
    LET m == Match(WHITESPACE, buf, p)
    IN  IF ws /\ m # NoMatch THEN m ELSE p

\* _line_start after the whitespace skip of _token
SkipLineStart(buf, p, ls, ws) ==
    LET m == Match(WHITESPACE, buf, p)
    IN  IF ws /\ m # NoMatch /\ HasNL(buf, p, m) THEN m ELSE ls

AtEndStrict(buf, p) == p > Len(buf)

AtEndEarly(buf, p) == p >= Len(buf) - 1

\* if self.pos >= len(_buffer): return None
AtEnd(buf, p) == p >= Len(buf)

LastMatch(rs, buf, p) ==
    LET hits == {i \in 1..Len(rs) : Match(rs[i].pattern, buf, p) # NoMatch}
    IN  IF hits = {} THEN 0
        ELSE CHOOSE i \in hits : \A j \in hits : i >= j

\* the loop of _token: the first rule, in dict order, that matches at p
FirstMatch(rs, buf, p) ==
    LET hits == {i \in 1..Len(rs) : Match(rs[i].pattern, buf, p) # NoMatch}
    IN  IF hits = {} THEN 0
        ELSE CHOOSE i \in hits : \A j \in hits : i <= j

TokenPosAfterAdvance(buf, p, e, ls) == GetPos(buf, e, ls)

\* Token(..., self.get_pos()) is built with the cursor still at p, before
\* self.pos = match.end()
TokenPos(buf, p, e, ls) == GetPos(buf, p, ls)

AdvanceBeforeAction(act, p, e) == ActionPos(act, e)

AdvanceByOne(act, p, e) == p + 1

AdvanceNever(act, p, e) == ActionPos(act, p)

AdvanceAtLeastOne(act, p, e) == IF e > p THEN e ELSE p + 1

\* pattern.action(self, token) runs with the cursor at p and may write it;
\* then self.pos = match.end()
Advance(act, p, e) == e

\* Lexer.__next__ -> Lexer._token (-> Lexer._error)
NextToken ==
    LET p  == SkipEnd(buffer, pos, ignore_ws)
        ls == SkipLineStart(buffer, pos, line_start, ignore_ws)
        skipped == Slice(buffer, pos, p)
        i  == FirstMatch(rules, buffer, p)
    IN  /\ line_start' = ls
        /\ UNCHANGED <<buffer, col_no, error_func, ignore_ws, rules>>
        /\ IF AtEnd(buffer, p)
           THEN \* return None; __next__ raises StopIteration
                /\ pos' = p
                /\ last' = Call("next_token", "eoi", p, NoToken, NoToken,
                                NoPos, 0)
                /\ consumed' = (IF pure THEN consumed \o skipped ELSE <<>>)
                /\ pure' = pure
                /\ ended' = (IF ended = "no" THEN "once" ELSE "again")
           ELSE IF i # 0
           THEN LET r   == rules[i]
                    e   == Match(r.pattern, buffer, p)
                    tok == Token(Slice(buffer, p, e), r.name,
                                 TokenPos(buffer, p, e, ls))
                    ret == ActionResult(r.action, tok)
                IN  /\ pos' = Advance(r.action, p, e)
                    /\ last' = Call("next_token", "token", p, tok, ret,
                                    NoPos, 0)
                    /\ pure' = (pure /\ r.action = "identity")
                    /\ consumed' = (IF pure'
                                    THEN consumed \o skipped \o ret.value
                                    ELSE <<>>)
                    /\ ended' = ended
           ELSE IF error_func = "None"
           THEN \* _error: raise LexerError(error_msg)
                /\ pos' = p
                /\ last' = Call("next_token", "LexerError", p, NoToken,
                                NoToken, GetPos(buffer, p, ls), 0)
                /\ consumed' = (IF pure THEN consumed \o skipped ELSE <<>>)
                /\ pure' = pure
                /\ ended' = ended
           ELSE \* _error: the argument self.buffer[self._pos] reads an
                \* attribute the lexer does not have: AttributeError, raised
                \* before the hook is called
                /\ pos' = p
                /\ last' = Call("next_token", "AttributeError", p, NoToken,
                                NoToken, NoPos, 0)
                /\ consumed' = (IF pure THEN consumed \o skipped ELSE <<>>)
                /\ pure' = pure
                /\ ended' = ended

Next ==
    \/ \E b \in Buffers, ws \in BOOLEAN : Setup(b, ws)
    \/ \E g \in Registrations : OnMatch(g[1][1], g[2], g[1][2])
    \/ OnError
    \/ GetPosCall
    \/ NextToken

Spec == Init /\ [][Next]_vars

\* One session of a fresh lexer, used as in the module's example and in the
\* tests: the rules and the hook are configured, setup feeds a buffer, and
\* "for token in lexer" keeps pulling.
Configuring == last.op \in {"init", "on_match", "on_error"}

ConfigureRule(g) == Configuring /\ OnMatch(g[1][1], g[2], g[1][2])

ConfigureHook == Configuring /\ OnError

OpenSession(b, ws) == Configuring /\ Setup(b, ws)

Pull == ~Configuring /\ NextToken

SessionNext ==
    \/ \E g \in Registrations : ConfigureRule(g)
    \/ ConfigureHook
    \/ \E b \in Buffers, ws \in BOOLEAN : OpenSession(b, ws)
    \/ Pull

SessionSpec == Init /\ [][SessionNext]_vars /\ WF_vars(Pull)

\* ================================================================ claims
\* a pull: the last call was next_token
Pulled == last.op = "next_token"

\* the rules of rs whose pattern matches at offset p
Matching(rs, buf, p) ==
    {i \in 1..Len(rs) : Match(rs[i].pattern, buf, p) # NoMatch}

\* the offset just after the last newline of buf[0:p], 0 if there is none
TrueLineStart(buf, p) ==
    LET nls == {i \in 1..p : i <= Len(buf) /\ buf[i] = NL}
    IN  IF nls = {} THEN 0 ELSE CHOOSE i \in nls : \A j \in nls : j <= i

\* C1: when a pull finds the cursor inside the buffer after the whitespace
\* skip and some rule matches there, the token comes from the rule that
\* matches and has no matching rule registered before it: it carries that
\* rule's name and that rule's match, whatever later rules would match.
C1_FirstMatchWins ==
    (Pulled /\ last.start < Len(buffer)) =>
        \A i \in Matching(rules, buffer, last.start) :
            (\A j \in 1..(i - 1) : j \notin Matching(rules, buffer, last.start))
            => /\ last.kind = "token"
               /\ last.handed.type = rules[i].name
               /\ last.handed.value =
                    Slice(buffer, last.start,
                          Match(rules[i].pattern, buffer, last.start))

\* C1 witness: two rules match at the offset, the later one a longer text,
\* and the token is the first rule's shorter match.
C1_Witness ==
    /\ Pulled /\ last.kind = "token"
    /\ Len(rules) = 2
    /\ Matching(rules, buffer, last.start) = {1, 2}
    /\ Match(rules[2].pattern, buffer, last.start)
         > Match(rules[1].pattern, buffer, last.start)
    /\ last.handed.type = rules[1].name
    /\ Len(last.handed.value) = 1

\* C2: a yielded token was built from the match at the offset p the cursor
\* had after the whitespace skip: value = buffer[p:end], type = the name of
\* a registered rule matching at p up to end, pos = (newlines before p,
\* p - line_start); the pull returns what that rule's action returned; and
\* the cursor stands at the match's end.
C2_TokenAndAdvance ==
    (Pulled /\ last.kind = "token") =>
        LET i == IndexOf(rules, last.handed.type)
        IN  /\ i # 0
            /\ Match(rules[i].pattern, buffer, last.start) = pos
            /\ last.handed.value = Slice(buffer, last.start, pos)
            /\ last.handed.pos = <<CountNL(buffer, last.start),
                                   last.start - line_start>>
            /\ last.ret = ActionResult(rules[i].action, last.handed)

\* C2 witness: a token matched past offset 0 by a rule whose action wrote
\* the cursor and rewrote the token; the cursor is at the match's end.
C2_Witness ==
    /\ Pulled /\ last.kind = "token"
    /\ last.start > 0
    /\ pos = last.start + 1
    /\ rules[IndexOf(rules, last.handed.type)].action = "rewrite"
    /\ last.ret # last.handed
    /\ last.handed.pos[2] > 0

\* C3: right after setup the cursor is reset: pos = 0 and line_start = 0.
C3_SetupResetsCursor ==
    last.op = "setup" => (pos = 0 /\ line_start = 0 /\ col_no = 0)

\* C4: a LexerError reports the line of the offending character and the
\* offset of that character within its own line, and get_pos gives the
\* same pair after the failure.
C4_ErrorPosition ==
    (Pulled /\ last.kind = "LexerError") =>
        /\ last.errpos = <<CountNL(buffer, last.start),
                           last.start - TrueLineStart(buffer, last.start)>>
        /\ GetPos(buffer, pos, line_start) = last.errpos

\* C5: with an error hook installed, a pull that finds no rule matching at
\* the cursor invokes the hook exactly once and fails only as the hook does.
C5_HookInvoked ==
    (/\ Pulled
     /\ error_func = "hook"
     /\ last.start < Len(buffer)
     /\ Matching(rules, buffer, last.start) = {}) =>
        /\ last.hooks = 1
        /\ last.kind \notin {"LexerError", "AttributeError"}

\* C6: a pull signals the end of input exactly when the cursor, after the
\* whitespace skip, is at or past the end of the buffer; and once the
\* session has signalled it, every further pull signals it again and leaves
\* pos and line_start as they were.
C6_EndAbsorbing ==
    [][last'.op = "next_token" =>
          /\ (last'.kind = "eoi") = (last'.start >= Len(buffer'))
          /\ (last'.kind = "eoi") => (pos' >= Len(buffer') /\ ended' # "no")
          /\ (ended # "no") =>
                /\ last'.kind = "eoi"
                /\ pos' = pos
                /\ line_start' = line_start
                /\ ended' = "again"]_vars

\* C6 witness: a second StopIteration of a session over a non-empty buffer,
\* with a registered rule that would match (the empty string) at the end.
C6_Witness ==
    /\ Pulled /\ last.kind = "eoi"
    /\ ended = "again"
    /\ Len(buffer) > 0
    /\ pos = Len(buffer)
    /\ Matching(rules, buffer, pos) # {}

\* C7: line_start <= pos in every state.
C7_LineStartLePos == line_start <= pos

\* C8: 0 <= pos <= len(buffer) in every state.
C8_PosInBuffer == 0 <= pos /\ pos <= Len(buffer)

\* C8 witness: setup has just installed a buffer shorter than the offset
\* an earlier session had reached (line_start still holds that offset).
C8_Witness ==
    /\ last.op = "setup"
    /\ line_start > Len(buffer)
    /\ pos = 0

\* C9: while only identity actions have run in the session, the skipped
\* whitespace runs and the token values, concatenated in order, are exactly
\* buffer[0:pos]; each token's value is buffer[start:pos]; and at the end
\* of input the concatenation is the whole buffer.
C9_RoundTrip ==
    pure =>
        /\ consumed = Slice(buffer, 0, pos)
        /\ (Pulled /\ last.kind = "token") =>
              last.ret.value = Slice(buffer, last.start, pos)
        /\ (Pulled /\ last.kind = "eoi") => consumed = buffer

\* C9 witness: a session with identity actions has reached the end of a
\* buffer that holds whitespace and a token.
C9_Witness ==
    /\ Pulled /\ last.kind = "eoi" /\ pure
    /\ consumed = buffer
    /\ \E k \in 1..Len(buffer) : buffer[k] \in WsChars
    /\ \E k \in 1..Len(buffer) : buffer[k] = "a"

\* C10: a pull never decreases pos nor the line number of get_pos, whether
\* it yields a token, signals the end of input or fails.
C10_Monotone ==
    [][last'.op = "next_token" =>
          /\ pos' >= pos
          /\ GetPos(buffer', pos', line_start')[1]
               >= GetPos(buffer, pos, line_start)[1]]_vars

\* C10 witness: a token was yielded by a rule whose action wrote the cursor
\* back to 0, and the cursor stands past a newline.
C10_Witness ==
    /\ Pulled /\ last.kind = "token"
    /\ rules[IndexOf(rules, last.handed.type)].action = "rewrite"
    /\ pos > 0
    /\ CountNL(buffer, pos) > 0

C12_GetPosPure ==
    [][last'.op = "get_pos" =>
          /\ last'.errpos =
                <<Cardinality({k \in 1..pos : buffer[k] = NL}),
                  pos - line_start>>
          /\ UNCHANGED <<buffer, pos, col_no, line_start, error_func,
                         ignore_ws, rules>>
          /\ last'.errpos =
                <<Cardinality({k \in 1..pos' : buffer'[k] = NL}),
                  pos' - line_start'>>]_vars

\* C12 witness: get_pos was called in default mode with the cursor left,
\* after a whitespace skip, on a character that no rule matches (where a
\* pull raises LexerError).
C12_Witness ==
    /\ last.op = "get_pos"
    /\ error_func = "None" /\ ignore_ws
    /\ 0 < pos /\ pos < Len(buffer)
    /\ buffer[pos] \in WsChars
    /\ Matching(rules, buffer, pos) = {}
    /\ last.errpos[1] > 0

\* C13: setup and next_token leave the rule registry and the error hook as
\* they were; the registry changes only in an on_match call and the hook
\* only in an on_error call.
C13_Frame ==
    [][/\ (last'.op \in {"setup", "next_token"}) =>
             (rules' = rules /\ error_func' = error_func)
       /\ (rules' # rules) => last'.op = "on_match"
       /\ (error_func' # error_func) => last'.op = "on_error"]_vars

\* C13 witness: setup has opened a later session (an earlier one moved
\* line_start) and both registered rules and the hook are still in place.
C13_Witness ==
    /\ last.op = "setup"
    /\ line_start > 0
    /\ Len(rules) = 2
    /\ error_func = "hook"

\* C14: whenever a pull yields a token or raises LexerError, line_start is
\* the offset just after the last newline before the token's first
\* character / the offending character, and the column reported is that
\* character's offset within its own line.
C14_LineStartIsTrue ==
    (Pulled /\ last.kind \in {"token", "LexerError"}) =>
        /\ line_start = TrueLineStart(buffer, last.start)
        /\ (last.kind = "token") =>
              last.handed.pos[2] =
                  last.start - TrueLineStart(buffer, last.start)
        /\ (last.kind = "LexerError") =>
              last.errpos[2] = last.start - TrueLineStart(buffer, last.start)

\* the whitespace run that ends at offset p contains a newline
NLInRunBefore(buf, p) ==
    \E i \in 1..p : /\ i <= Len(buf) /\ buf[i] = NL
                    /\ \A k \in i..p : k <= Len(buf) /\ buf[k] \in WsChars

\* C15: right after a text containing a newline has been consumed, the
\* column of get_pos is 0: after a skipped whitespace run (cursor at
\* last.start) and after a token matched by a rule (cursor at pos).
C15_ColumnResets ==
    Pulled =>
        /\ (ignore_ws /\ NLInRunBefore(buffer, last.start)) =>
              last.start - line_start = 0
        /\ (last.kind = "token" /\ HasNL(buffer, last.start, pos)) =>
              GetPos(buffer, pos, line_start)[2] = 0

\* C16: a pull of a session with ignore_whitespace set first moves the
\* cursor over the whole whitespace run at pos, so it tries rules (yields a
\* token or fails) only at a non-whitespace character and signals the end
\* of input when only whitespace remains; with ignore_whitespace unset it
\* tries the rules at pos itself, and a whitespace character there that no
\* rule matches makes the pull fail (with LexerError in default mode).
C16_WhitespaceFlag ==
    [][last'.op = "next_token" =>
          IF ignore_ws
          THEN /\ last'.start = RunEnd(buffer, pos, WsChars)
               /\ (last'.kind # "eoi") =>
                     /\ last'.start < Len(buffer)
                     /\ buffer[last'.start + 1] \notin WsChars
               /\ (\A k \in (pos + 1)..Len(buffer) : buffer[k] \in WsChars)
                     => last'.kind = "eoi"
          ELSE /\ last'.start = pos
               /\ (/\ pos < Len(buffer)
                   /\ buffer[pos + 1] \in WsChars
                   /\ Matching(rules, buffer, pos) = {}) =>
                     /\ last'.kind \notin {"token", "eoi"}
                     /\ (error_func = "None") => last'.kind = "LexerError"
                     /\ pos' = pos]_vars

\* C16 witness: with ignore_whitespace unset, a pull after a token failed
\* with LexerError on a whitespace character that no rule matches.
C16_Witness ==
    /\ Pulled /\ last.kind = "LexerError"
    /\ ~ignore_ws
    /\ last.start > 0
    /\ buffer[last.start + 1] \in WsChars
    /\ rules # <<>>

\* no registered pattern matches the empty string, and no hook is installed
Terminating ==
    /\ error_func = "None"
    /\ \A i \in 1..Len(rules) : Match(rules[i].pattern, <<>>, 0) = NoMatch

\* the iteration of the session has ended
IterationOver == Pulled /\ last.kind \in {"eoi", "LexerError"}

\* C17: in default mode with no pattern that matches the empty string,
\* every yielded token strictly increases pos, which stays within the
\* buffer (so a session yields at most len(buffer) tokens), and a caller
\* who keeps pulling after setup reaches the end of the iteration, by
\* StopIteration or LexerError.
C17_Terminates ==
    /\ [][(Terminating /\ last'.op = "next_token" /\ last'.kind = "token")
            => (pos < pos' /\ pos' <= Len(buffer))]_vars
    /\ (Terminating /\ last.op = "setup") ~> IterationOver

\* C17 witness: a session without whitespace over a buffer of two or more
\* characters has yielded its tokens and ended with StopIteration.
C17_Witness ==
    /\ Terminating /\ Pulled /\ last.kind = "eoi"
    /\ rules # <<>>
    /\ Len(buffer) >= 2 /\ pos = Len(buffer)
    /\ \A k \in 1..Len(buffer) : buffer[k] \notin WsChars

\* the last pull yielded a token whose match was the empty string
EmptyToken == Pulled /\ last.kind = "token" /\ last.handed.value = <<>>

\* C18: when the first rule that matches at the cursor matches the empty
\* string, the pull yields a token with an empty value and leaves pos where
\* it was; and from then on every pull of the session does the same again:
\* the lexer stays in that state and never reaches the end of input or an
\* error.
C18_EmptyMatchLoops ==
    [][/\ (/\ last'.op = "next_token"
           /\ last'.start < Len(buffer)
           /\ \E i \in Matching(rules, buffer, last'.start) :
                 /\ \A j \in Matching(rules, buffer, last'.start) : i <= j
                 /\ Match(rules[i].pattern, buffer, last'.start) = last'.start)
          => (/\ last'.kind = "token"
              /\ last'.handed.value = <<>>
              /\ pos' = last'.start)
       /\ EmptyToken =>
             (EmptyToken' /\ pos' = pos /\ last' = last /\ ended' = "no")]_vars

\* C18 witness: a pull has yielded an empty token with input left.
C18_Witness ==
    /\ EmptyToken
    /\ pos < Len(buffer)
    /\ pos = last.start
    /\ ended = "no"

\* the line start that the first session of a fresh lexer over buf has when
\* one of its pulls tries the rules rs at offset target: the session is
\* replayed from pos = 0, line_start = 0
RECURSIVE FreshLineStart(_, _, _, _, _, _)
FreshLineStart(rs, buf, ws, p, ls, target) ==
    LET q   == SkipEnd(buf, p, ws)
        ls2 == SkipLineStart(buf, p, ls, ws)
        i   == FirstMatch(rs, buf, q)
    IN  IF q >= target \/ q >= Len(buf) \/ i = 0 THEN ls2
        ELSE IF Match(rs[i].pattern, buf, q) = q THEN ls2
        ELSE FreshLineStart(rs, buf, ws, Match(rs[i].pattern, buf, q), ls2,
                            target)

\* C19: the position carried by every token and every LexerError of a
\* session is the one the same pull has in the first session of a fresh
\* lexer with the same rules over the same buffer.
C19_SessionsIndependent ==
    (Pulled /\ last.kind \in {"token", "LexerError"}) =>
        LET fresh == <<CountNL(buffer, last.start),
                       last.start - FreshLineStart(rules, buffer, ignore_ws,
                                                   0, 0, last.start)>>
        IN  /\ (last.kind = "token") => last.handed.pos = fresh
            /\ (last.kind = "LexerError") => last.errpos = fresh

====
